---- MODULE Spec2Model ----
(***************************************************************************)
(* Crawl orchestration of domain-chatAI: IntelligentCrawler (discovery,    *)
(* prioritisation, worker pool over a shared asyncio.PriorityQueue) and    *)
(* the background job crawl_and_process that runs it.                      *)
(*                                                                         *)
(* Workers are asyncio tasks: a step of the model is the code a task runs  *)
(* between two suspension points (browser launch, page fetch, browser      *)
(* close).  PriorityQueue.get() on a non-empty queue and put() on an       *)
(* unbounded queue do not suspend.                                         *)
(*                                                                         *)
(* Specifications: Spec and FairSpec (the small site), SpecHub (the hub    *)
(* site), SpecBlog (the blog site, one worker), SpecCancel (the blog site  *)
(* with a caller that asks for cancellation), SpecCall (single calls of    *)
(* the functions on URLs, of the discovery phase and of the worker count), *)
(* SpecApi (the crawl API: requests, jobs and the lock of the domain),     *)
(* SpecPipeline (the production pipeline of the test server) and SpecChat  *)
(* (the chat endpoint of the test server).                                 *)
(***************************************************************************)
EXTENDS Integers, Sequences, FiniteSets, Bags, TLC

(***************************************************************************)
(* Bounds of the model.                                                    *)
(***************************************************************************)
MaxLinks == 1        \* links extracted from one page of the small site
SmallBudget == 2     \* a page budget the small site can exhaust
NumLeaf == 51        \* leaf pages of the hub site
MaxBudget == 60      \* largest page budget a worker count is computed for
MaxJobs == 3         \* crawl jobs the service accepts for the domain
MaxChats == 18       \* chat requests of one session

(***************************************************************************)
(* Program constants.                                                      *)
(***************************************************************************)
MaxWorkers == 5
PagesPerWorker == 100
DefaultMaxPages == 100
PipelineMaxPages == 20
HistoryLimit == 10

(***************************************************************************)
(* URLs.  A URL is a record of the parts of its text:                      *)
(*   scheme "://" host "/" name ext ["/" ["/"]] ["?x=a"] ["#s"]            *)
(* with "" (name 0, no slash) or "/" (name 0, slash) for the empty path.   *)
(* caps names the parts that are written in capital letters.  Host "d" is  *)
(* the crawled domain.  Names: 0 the empty path, 1 "a/contact", 2 "about", *)
(* 3 "blog/post-1", 4 "blog/post-2", 5.. generic pages "p005", "p006", ..  *)
(* so that Python's string order on the URLs of a crawl is the order on    *)
(* (host, name, slash).                                                    *)
(***************************************************************************)
Url(h, n, s) ==
    [scheme |-> "https", host |-> h, name |-> n, ext |-> "", slash |-> s,
     slash2 |-> FALSE, query |-> FALSE, frag |-> FALSE, caps |-> {}]

Domain == "d"
BaseUrl == Url(Domain, 0, FALSE)
RootUrl == Url(Domain, 0, TRUE)
ContactUrl == Url(Domain, 1, FALSE)
AboutUrl == Url(Domain, 2, FALSE)
AboutSlashUrl == Url(Domain, 2, TRUE)
Post1Url == Url(Domain, 3, FALSE)
Post2Url == Url(Domain, 4, FALSE)
OtherUrl == Url("o", 0, TRUE)

\* "https://www.www.d/", a page of another host than d and www.d.
WwwWwwUrl == Url("www.www.d", 0, TRUE)

LeafNames == 5 .. (4 + NumLeaf)
LeafUrls == {Url(Domain, n, FALSE) : n \in LeafNames}

SmallUrls == {RootUrl, AboutUrl, AboutSlashUrl, OtherUrl}
BlogUrls == {RootUrl, ContactUrl, AboutUrl, Post1Url, Post2Url}
Urls == SmallUrls \cup BlogUrls \cup LeafUrls

NoUrl == Url("", 0, FALSE)

\* A link that is no page: "mailto:x@d".
MailtoUrl == [Url("", 0, FALSE) EXCEPT !.scheme = "mailto"]

\* The URL texts the functions on URLs are applied to.
Hosts == {"d", "www.d", "o", "help.o"}
TextNames == {0, 2, 5}
Extensions == {"", ".pdf", ".html"}
Parts == {"scheme", "host", "path", "query"}

WellFormed(u) ==
    /\ u.name = 0 => (u.ext = "" /\ "path" \notin u.caps)
    /\ u.slash2 => u.slash
    /\ "query" \in u.caps => u.query

TextUrls ==
    {u \in [scheme : {"https"}, host : Hosts, name : TextNames,
            ext : Extensions, slash : BOOLEAN, slash2 : BOOLEAN,
            query : BOOLEAN, frag : BOOLEAN, caps : SUBSET Parts] :
        WellFormed(u)}

\* As normalize_url, for a normalizer that removes one trailing slash where
\* the path ends with one.
normalize_url_one_slash(u) ==
    [u EXCEPT !.caps = {}, !.slash = (u.name = 0 \/ u.slash2),
              !.slash2 = FALSE, !.frag = FALSE]

\* ProductionCrawler._normalize_url: the whole text is lower-cased before it
\* is parsed, path.rstrip('/') or '/' is the path, the query is kept and the
\* fragment is dropped.
normalize_url(u) ==
    [u EXCEPT !.caps = {}, !.slash = (u.name = 0), !.slash2 = FALSE,
              !.frag = FALSE]

HostRank(h) == IF h = Domain THEN 0 ELSE 1

\* Python's str "<" on two URLs of a crawl.
UrlLess(a, b) ==
    \/ HostRank(a.host) < HostRank(b.host)
    \/ /\ a.host = b.host
       /\ \/ a.name < b.name
          \/ a.name = b.name /\ ~a.slash /\ b.slash

\* Tuple "<=" on queue entries (priority, url), as heapq compares them.
EntryLeq(e, f) ==
    \/ e[1] < f[1]
    \/ e[1] = f[1] /\ (e[2] = f[2] \/ UrlLess(e[2], f[2]))

\* The keywords of _calculate_url_priority that occur in url.lower(): those
\* of the host and those of the path.
HostKeywords(h) == IF h = "help.o" THEN {"help"} ELSE {}

NameKeywords(n) ==
    IF n = 1 THEN {"contact"}
    ELSE IF n = 2 THEN {"about"}
    ELSE IF n \in {3, 4} THEN {"blog"}
    ELSE {}

KeywordsIn(u) == HostKeywords(u.host) \cup NameKeywords(u.name)

\* str.replace("www.", "") on the hosts of the model: every occurrence of
\* "www." is removed, wherever it stands.
StripWww(h) == IF h \in {"www.d", "www.www.d"} THEN "d" ELSE h

\* The netloc of urlparse(url) is the host as it is written (empty for a
\* mailto: link); it is compared with the domain as it is written.
_is_same_domain(u) ==
    /\ u.scheme = "https"
    /\ "host" \notin u.caps
    /\ StripWww(u.host) = StripWww(Domain)

_calculate_url_priority(u) ==
    IF u = BaseUrl \/ u = RootUrl THEN 0
    ELSE IF KeywordsIn(u) \cap {"product", "service", "pricing", "about", "contact"} # {}
         THEN 1
    ELSE IF KeywordsIn(u) \cap {"doc", "help", "faq", "support"} # {} THEN 2
    ELSE IF KeywordsIn(u) \cap {"blog", "news"} # {} THEN 3
    ELSE 5

SkipExtensions ==
    {".pdf", ".jpg", ".jpeg", ".png", ".gif", ".zip", ".mp4", ".mp3", ".doc",
     ".docx", ".xls", ".xlsx"}

\* Whether urlparse(url).path.lower() ends with a skipped extension.
PathEndsWithSkipped(u) == u.ext \in SkipExtensions /\ ~u.slash

\* Whether one of "javascript:", "mailto:", "tel:", "#" occurs in url.lower().
HasSkipPattern(u) == u.scheme \in {"javascript", "mailto", "tel"} \/ u.frag

\* _is_valid_url: urlparse(url) has a netloc and a scheme.
_is_valid_url(u) == u.host # "" /\ u.scheme # ""

_should_crawl(u, vis) ==
    /\ u \notin vis
    /\ _is_same_domain(u)
    /\ ~PathEndsWithSkipped(u)
    /\ ~HasSkipPattern(u)

\* Of the common paths, "/" and "/about" are urls of the model.
_generate_common_urls == {RootUrl, AboutUrl}

Min(a, b) == IF a < b THEN a ELSE b

WorkerCount(mp) == Min(MaxWorkers, (mp \div PagesPerWorker) + 1)

Max(a, b) == IF a > b THEN a ELSE b

\* The "active_workers" the production pipeline reports for a page budget.
active_workers(mp) == Min(10, Max(3, mp \div 5))

\* The page budgets a worker count is computed for.
Budgets == {[max_pages |-> n] : n \in 1 .. MaxBudget}

VARIABLES
    site,           \* the web site being crawled: "small", "hub" or "blog"
    max_pages,      \* IntelligentCrawler.max_pages
    priority_paths, \* crawl_and_process's priority_paths, as URLs
    phase,          \* position of crawl_and_process
    status,         \* the job's status in the job store
    run_result,     \* what crawler.start() handed to crawl_and_process
    to_visit,       \* IntelligentCrawler.to_visit, a bag of <<priority, url>>
    visited_urls,   \* IntelligentCrawler.visited_urls
    pages,          \* IntelligentCrawler.pages, the urls of the page records
    failed_urls,    \* IntelligentCrawler.failed_urls, url -> reason
    pc,             \* worker -> "launch" | "fetch" | "closing" | "done"
                    \* (worker w of the model is worker_id w - 1)
    cur,            \* worker id -> url passed to _crawl_page_complete
    fetch_calls,    \* url -> number of page.goto calls made for it
    fetch_outcomes, \* url -> outcomes page.goto has had for it
    fetch_pages,    \* url -> number of page.goto calls that gave a page
    applied,        \* the function on URLs that was called last, or "none"
    input,          \* the argument of that call
    output,         \* what the call returned
    cancel_requested, \* whether a caller has asked for the run to be cancelled
    lock,           \* redis key crawl:domain:<domain>: a job id, or 0 (no key)
    job_status,     \* job id -> status under redis key crawl:job:<id>
    job_pc,         \* job id -> position of its crawl_and_process task
    progress,       \* the "progress" field of the job of the production pipeline
    history,        \* session["history"] of a chat session, as request numbers
    answered        \* the path that answered the last chat request

vars == <<site, max_pages, priority_paths, phase, status, run_result, to_visit,
          visited_urls, pages, failed_urls, pc, cur, fetch_calls, fetch_outcomes,
          fetch_pages, applied, input, output, cancel_requested, lock,
          job_status, job_pc, progress, history, answered>>

\* The variables of a call of a function on URLs.
call == <<applied, input, output>>

\* The variables of the job store, the production pipeline and the chat.
service ==
    <<cancel_requested, lock, job_status, job_pc, progress, history, answered>>

\* What page.goto and the extraction after it can come to: a page, the 30 s
\* timeout, or "error" for every other way of not giving a page (no response
\* or a status >= 400, or any other exception).
Outcomes == {"page", "timeout", "error"}

(***************************************************************************)
(* The environment: what discovery finds, what a fetch answers and which   *)
(* links a fetched page carries.  The small site is arbitrary within the   *)
(* bounds; so is the blog site, whose pages link to "/a/contact" and to    *)
(* the first post only; the hub site has two hub pages that both link to   *)
(* every leaf page, it always answers with the page, and it answers the    *)
(* fetches in flight in the order of their urls (lowest worker first on a  *)
(* tie).                                                                   *)
(*                                                                         *)
(* What the discovery strategies come to: for each of the sitemap, the     *)
(* robots.txt and the home page scan, whether it failed ("no", or where)   *)
(* and the urls it returned.  A strategy that fails does so at its first   *)
(* request and returns nothing.  The home page scan fails at the launch of *)
(* its browser or at page.goto.                                            *)
(***************************************************************************)
Result(f, urls) == [failed |-> f, urls |-> urls]

Found(urls) ==
    [sitemap |-> Result("no", urls), robots |-> Result("no", {}),
     onpage |-> Result("no", {})]

DiscoveryChoices ==
    IF site = "hub" THEN {Found({RootUrl})}
    ELSE IF site = "blog" THEN {Found({RootUrl, AboutUrl, Post1Url, Post2Url})}
    ELSE {Found(f) : f \in SUBSET SmallUrls}

OutcomeChoices(u) ==
    IF site = "hub" THEN {"page"} ELSE Outcomes

LinkChoices(u) ==
    IF site = "hub"
    THEN IF u \in {RootUrl, AboutUrl} THEN {LeafUrls} ELSE {{}}
    ELSE IF site = "blog"
    THEN {L \in SUBSET {ContactUrl, Post1Url} : Cardinality(L) <= MaxLinks}
    ELSE {L \in SUBSET SmallUrls : Cardinality(L) <= MaxLinks}

\* Whether the site may answer the fetch of worker w now, given the state of
\* every worker (p) and the url each has in flight (c).
MayAnswer(w, p, c) ==
    site = "hub" =>
        \A v \in DOMAIN p :
            (v # w /\ p[v] = "fetch") =>
                \/ UrlLess(c[w], c[v])
                \/ c[w] = c[v] /\ w < v

(***************************************************************************)
(* Queue and worker helpers.                                               *)
(***************************************************************************)
\* asyncio.PriorityQueue.put of every entry of a set.
PutAll(q, entries) == q (+) SetToBag(entries)

\* As MinEntry, for a heap whose order is reversed.
MinEntryReversed(q) ==
    CHOOSE e \in BagToSet(q) : \A f \in BagToSet(q) : EntryLeq(f, e)

\* The entry heappop returns.
MinEntry(q) ==
    CHOOSE e \in BagToSet(q) : \A f \in BagToSet(q) : EntryLeq(e, f)

\* The while condition of _crawler_worker.
KeepGoing(q, vis) == q # EmptyBag /\ Cardinality(vis) < max_pages

\* The head of the worker loop, up to its next suspension: get entries while
\* the loop condition holds, skipping visited urls ("continue"), until a url
\* to fetch is found or the loop ends.
RECURSIVE ClaimBreak(_, _)
ClaimBreak(q, vis) ==
    IF ~KeepGoing(q, vis) THEN [q |-> q, got |-> FALSE, url |-> NoUrl]
    ELSE LET e == MinEntry(q)
             rest == q (-) SetToBag({e})
         IN IF e[2] \in vis THEN [q |-> rest, got |-> FALSE, url |-> NoUrl]
            ELSE [q |-> rest, got |-> TRUE, url |-> e[2]]

RECURSIVE Claim(_, _)
Claim(q, vis) ==
    IF ~KeepGoing(q, vis) THEN [q |-> q, got |-> FALSE, url |-> NoUrl]
    ELSE LET e == MinEntry(q)
             rest == q (-) SetToBag({e})
         IN IF e[2] \in vis THEN Claim(rest, vis)
            ELSE [q |-> rest, got |-> TRUE, url |-> e[2]]

\* What _crawl_page_complete hands to the worker for an outcome of page.goto:
\* a page, or None for a bad status and for every exception (all are caught
\* there, the timeout included), so nothing is ever raised to the worker.
_crawl_page_complete(outcome) ==
    IF outcome = "page" THEN "page" ELSE "None"

\* The entries a worker puts for the links of a fetched page.
LinkEntries(links, vis) ==
    {<<_calculate_url_priority(l), l>> : l \in {k \in links : k \notin vis /\ _should_crawl(k, vis)}}

\* _prioritize_urls: the entries start() puts for the discovered urls.
_prioritize_urls(urls, vis) ==
    {<<_calculate_url_priority(u), u>> : u \in {k \in urls : _should_crawl(k, vis)}}

\* _discovery_phase: the union of what the strategies returned, same domain
\* only.  The browser of the home page scan is launched outside the try
\* block, so a failing launch is raised to the caller; a failing page.goto
\* is caught and logged.  discover_via_search_engines returns nothing.
_discovery_phase(s) ==
    IF s.onpage.failed = "launch" THEN [raised |-> TRUE, urls |-> {}]
    ELSE [raised |-> FALSE,
          urls |-> {u \in s.sitemap.urls \cup s.robots.urls
                          \cup (IF s.onpage.failed = "no" THEN s.onpage.urls ELSE {})
                          \cup _generate_common_urls :
                      _is_same_domain(u)}]

\* As AppendPage, for a page list that keeps one record per url.
AppendPageOnce(ps, url) ==
    IF \E i \in 1 .. Len(ps) : ps[i] = url THEN ps ELSE Append(ps, url)

\* list.append of the record of a fetched page.
AppendPage(ps, url) == Append(ps, url)

\* As Visit, for a worker that takes a url whose fetch failed out of the set.
VisitForgetFailed(vis, r, url) ==
    IF r = "page" THEN vis \cup {url} ELSE vis \ {url}

\* As Visit, for a worker that marks a url as visited whatever the fetch gave.
VisitAttempted(vis, r, url) == vis \cup {url}

\* visited_urls after the loop body has handled result r of the fetch of url:
\* visited_urls.add(url) is under "if page_data".
Visit(vis, r, url) == IF r = "page" THEN vis \cup {url} ELSE vis

\* The queue after the loop body has handled result r of the fetch of url:
\* only a page makes the worker put anything (vis already holds url then).
BodyQueue(r, url, links, q, vis) ==
    IF r = "page" THEN PutAll(q, LinkEntries(links, vis)) ELSE q

\* The try/except is inside the while loop: the worker goes back to the loop
\* head after the body, whatever the body did.
AfterBodyStop(r, q, vis) ==
    IF r = "page" THEN Claim(q, vis) ELSE [q |-> q, got |-> FALSE, url |-> NoUrl]

AfterBody(r, q, vis) == Claim(q, vis)

Workers == DOMAIN pc

\* No request has reached the service yet.
ServiceIdle ==
    /\ cancel_requested = FALSE
    /\ lock = 0
    /\ job_status = <<>>
    /\ job_pc = <<>>
    /\ progress = 0
    /\ history = <<>>
    /\ answered = "none"

Init ==
    /\ site = "small"
    /\ max_pages \in {SmallBudget, DefaultMaxPages}
    /\ priority_paths \in {{}, {AboutUrl}}
    /\ phase = "queued"
    /\ status = "started"
    /\ run_result = "none"
    /\ to_visit = EmptyBag
    /\ visited_urls = {}
    /\ pages = <<>>
    /\ failed_urls = <<>>
    /\ pc = <<>>
    /\ cur = <<>>
    /\ fetch_calls = [u \in Urls |-> 0]
    /\ fetch_outcomes = [u \in Urls |-> {}]
    /\ fetch_pages = [u \in Urls |-> 0]
    /\ applied = "none"
    /\ input = NoUrl
    /\ output = NoUrl
    /\ ServiceIdle

\* crawl_and_process up to "await crawler.start()".
crawl_and_process ==
    /\ phase = "queued"
    /\ status' = "crawling"
    /\ to_visit' = PutAll(to_visit, {<<0, p>> : p \in priority_paths})
    /\ phase' = "discovery"
    /\ UNCHANGED <<site, max_pages, priority_paths, run_result, visited_urls,
                   pages, failed_urls, pc, cur, fetch_calls, fetch_outcomes,
                   fetch_pages>>
    /\ UNCHANGED call
    /\ UNCHANGED service

\* IntelligentCrawler.start up to the gather of _crawl_phase.
\* When discovery raises, so does start(), and crawl_and_process marks the
\* job as failed.
start ==
    /\ phase = "discovery"
    /\ \E s \in DiscoveryChoices :
          LET d == _discovery_phase(s)
          IN IF d.raised
             THEN /\ status' = "failed"
                  /\ phase' = "finished"
                  /\ UNCHANGED <<to_visit, pc, cur>>
             ELSE /\ to_visit' = PutAll(to_visit,
                                        _prioritize_urls(d.urls, visited_urls))
                  /\ pc' = [w \in 1 .. WorkerCount(max_pages) |-> "launch"]
                  /\ cur' = [w \in 1 .. WorkerCount(max_pages) |-> NoUrl]
                  /\ phase' = "crawling"
                  /\ status' = status
    /\ UNCHANGED <<site, max_pages, priority_paths, run_result, visited_urls,
                   pages, failed_urls, fetch_calls, fetch_outcomes, fetch_pages>>
    /\ UNCHANGED call
    /\ UNCHANGED service

\* As Proceed, for a loop that tests the budget only: on an empty queue the
\* worker waits in to_visit.get() for an entry.
ProceedWait(w, c) ==
    /\ to_visit' = c.q
    /\ IF c.got
       THEN /\ pc' = [pc EXCEPT ![w] = "fetch"]
            /\ cur' = [cur EXCEPT ![w] = c.url]
            /\ fetch_calls' = [fetch_calls EXCEPT ![c.url] = @ + 1]
       ELSE /\ pc' = [pc EXCEPT ![w] = IF c.q = EmptyBag THEN "get" ELSE "closing"]
            /\ cur' = [cur EXCEPT ![w] = NoUrl]
            /\ fetch_calls' = fetch_calls

\* The worker goes on from the result c of the loop head: into the fetch of
\* the url it got, or out of the loop.
Proceed(w, c) ==
    /\ to_visit' = c.q
    /\ IF c.got
       THEN /\ pc' = [pc EXCEPT ![w] = "fetch"]
            /\ cur' = [cur EXCEPT ![w] = c.url]
            /\ fetch_calls' = [fetch_calls EXCEPT ![c.url] = @ + 1]
       ELSE /\ pc' = [pc EXCEPT ![w] = "closing"]
            /\ cur' = [cur EXCEPT ![w] = NoUrl]
            /\ fetch_calls' = fetch_calls

\* The browser of worker w is up: first pass through the loop head.
WorkerLaunch(w) ==
    /\ phase = "crawling"
    /\ w \in Workers
    /\ pc[w] = "launch"
    /\ Proceed(w, Claim(to_visit, visited_urls))
    /\ UNCHANGED <<site, max_pages, priority_paths, phase, status, run_result,
                   visited_urls, pages, failed_urls, fetch_outcomes, fetch_pages>>
    /\ UNCHANGED call
    /\ UNCHANGED service

\* _crawl_page_complete returns to worker w: the loop body, then the loop head.
\* The two except branches of the worker write failed_urls when the call
\* raises; r says whether it did.
WorkerFetched(w) ==
    /\ phase = "crawling"
    /\ w \in Workers
    /\ pc[w] = "fetch"
    /\ MayAnswer(w, pc, cur)
    /\ \E outcome \in OutcomeChoices(cur[w]), links \in LinkChoices(cur[w]) :
          LET url == cur[w]
              r == _crawl_page_complete(outcome)
              vis == Visit(visited_urls, r, url)
              q == BodyQueue(r, url, links, to_visit, vis)
          IN /\ fetch_outcomes' = [fetch_outcomes EXCEPT ![url] = @ \cup {outcome}]
             /\ fetch_pages' = IF outcome = "page"
                               THEN [fetch_pages EXCEPT ![url] = @ + 1]
                               ELSE fetch_pages
             /\ pages' = IF r = "page" THEN AppendPage(pages, url) ELSE pages
             /\ visited_urls' = vis
             /\ failed_urls' =
                   IF r = "TimeoutError" THEN (url :> "timeout") @@ failed_urls
                   ELSE IF r = "Exception" THEN (url :> "error") @@ failed_urls
                   ELSE failed_urls
             /\ Proceed(w, AfterBody(r, q, vis))
    /\ UNCHANGED <<site, max_pages, priority_paths, phase, status, run_result>>
    /\ UNCHANGED call
    /\ UNCHANGED service

\* "await browser.close()" of worker w, after which its task is finished.
WorkerClose(w) ==
    /\ phase = "crawling"
    /\ w \in Workers
    /\ pc[w] = "closing"
    /\ pc' = [pc EXCEPT ![w] = "done"]
    /\ UNCHANGED <<site, max_pages, priority_paths, phase, status, run_result,
                   to_visit, visited_urls, pages, failed_urls, cur, fetch_calls,
                   fetch_outcomes, fetch_pages>>
    /\ UNCHANGED call
    /\ UNCHANGED service

\* asyncio.gather returns, start() returns self.pages and crawl_and_process
\* goes on to the processing stage.
Gather ==
    /\ phase = "crawling"
    /\ \A w \in Workers : pc[w] = "done"
    /\ run_result' = "pages"
    /\ status' = "processing"
    /\ phase' = "processing"
    /\ UNCHANGED <<site, max_pages, priority_paths, to_visit, visited_urls,
                   pages, failed_urls, pc, cur, fetch_calls, fetch_outcomes,
                   fetch_pages>>
    /\ UNCHANGED call
    /\ UNCHANGED service

\* build_knowledge_base returns or raises.
BuildKnowledgeBase ==
    /\ phase = "processing"
    /\ \E ok \in BOOLEAN : status' = IF ok THEN "completed" ELSE "failed"
    /\ phase' = "finished"
    /\ UNCHANGED <<site, max_pages, priority_paths, run_result, to_visit,
                   visited_urls, pages, failed_urls, pc, cur, fetch_calls,
                   fetch_outcomes, fetch_pages>>
    /\ UNCHANGED call
    /\ UNCHANGED service

Next ==
    \/ crawl_and_process
    \/ start
    \/ \E w \in 1 .. MaxWorkers : WorkerLaunch(w)
    \/ \E w \in 1 .. MaxWorkers : WorkerFetched(w)
    \/ \E w \in 1 .. MaxWorkers : WorkerClose(w)
    \/ Gather
    \/ BuildKnowledgeBase

Spec == Init /\ [][Next]_vars

\* The event loop runs every task that is ready, and page.goto answers
\* within its timeout.
Fairness ==
    /\ WF_vars(crawl_and_process)
    /\ WF_vars(start)
    /\ \A w \in 1 .. MaxWorkers :
          /\ WF_vars(WorkerLaunch(w))
          /\ WF_vars(WorkerFetched(w))
          /\ WF_vars(WorkerClose(w))
    /\ WF_vars(Gather)
    /\ WF_vars(BuildKnowledgeBase)

FairSpec == Spec /\ Fairness

\* The default request (max_pages 100, no priority paths) against the hub site.
InitHub ==
    /\ site = "hub"
    /\ max_pages = DefaultMaxPages
    /\ priority_paths = {}
    /\ phase = "queued"
    /\ status = "started"
    /\ run_result = "none"
    /\ to_visit = EmptyBag
    /\ visited_urls = {}
    /\ pages = <<>>
    /\ failed_urls = <<>>
    /\ pc = <<>>
    /\ cur = <<>>
    /\ fetch_calls = [u \in Urls |-> 0]
    /\ fetch_outcomes = [u \in Urls |-> {}]
    /\ fetch_pages = [u \in Urls |-> 0]
    /\ applied = "none"
    /\ input = NoUrl
    /\ output = NoUrl
    /\ ServiceIdle

SpecHub == InitHub /\ [][Next]_vars

\* A request without priority paths against the blog site, with a budget
\* that one worker serves (the largest such budget, or a small one).
InitBlog ==
    /\ site = "blog"
    /\ max_pages \in {SmallBudget, PagesPerWorker - 1}
    /\ priority_paths = {}
    /\ phase = "queued"
    /\ status = "started"
    /\ run_result = "none"
    /\ to_visit = EmptyBag
    /\ visited_urls = {}
    /\ pages = <<>>
    /\ failed_urls = <<>>
    /\ pc = <<>>
    /\ cur = <<>>
    /\ fetch_calls = [u \in Urls |-> 0]
    /\ fetch_outcomes = [u \in Urls |-> {}]
    /\ fetch_pages = [u \in Urls |-> 0]
    /\ applied = "none"
    /\ input = NoUrl
    /\ output = NoUrl
    /\ ServiceIdle

SpecBlog == InitBlog /\ [][Next]_vars

(***************************************************************************)
(* Calls of the functions on URLs, each on a crawler that has just been    *)
(* constructed: the argument is drawn first, then a function is called on  *)
(* it.                                                                     *)
(***************************************************************************)
crawl ==
    <<site, max_pages, priority_paths, phase, status, run_result, to_visit,
      visited_urls, pages, failed_urls, pc, cur, fetch_calls, fetch_outcomes,
      fetch_pages>>

\* A caller asks for the running crawl to be cancelled.  No operation of the
\* crawler reads the request: the loop of a worker tests the queue and the
\* number of visited urls, nothing else.
RequestCancel ==
    /\ phase = "crawling"
    /\ ~cancel_requested
    /\ cancel_requested' = TRUE
    /\ UNCHANGED <<crawl, call, lock, job_status, job_pc, progress, history,
                   answered>>

NextCancel == Next \/ RequestCancel

\* The blog site, with a caller that may ask for cancellation.
SpecCancel == InitBlog /\ [][NextCancel]_vars

\* What the strategies of a discovery can come to.
StrategyChoices ==
    {[sitemap |-> sm, robots |-> rb, onpage |-> op] :
        sm \in {Result("request", {})}
                  \cup {Result("no", f) : f \in SUBSET {AboutSlashUrl, OtherUrl, WwwWwwUrl}},
        rb \in {Result("request", {})}
                  \cup {Result("no", f) : f \in SUBSET {ContactUrl}},
        op \in {Result("launch", {}), Result("goto", {})}
                  \cup {Result("no", f) : f \in SUBSET {Post1Url, OtherUrl}}}

InitCall ==
    /\ site = "small"
    /\ max_pages = DefaultMaxPages
    /\ priority_paths = {}
    /\ phase = "queued"
    /\ status = "started"
    /\ run_result = "none"
    /\ to_visit = EmptyBag
    /\ visited_urls = {}
    /\ pages = <<>>
    /\ failed_urls = <<>>
    /\ pc = <<>>
    /\ cur = <<>>
    /\ fetch_calls = [u \in Urls |-> 0]
    /\ fetch_outcomes = [u \in Urls |-> {}]
    /\ fetch_pages = [u \in Urls |-> 0]
    /\ applied = "none"
    /\ input \in TextUrls \cup BlogUrls \cup {MailtoUrl} \cup StrategyChoices
                 \cup Budgets
    /\ output = NoUrl
    /\ ServiceIdle

CallPriority ==
    /\ applied = "none"
    /\ input \in TextUrls \cup BlogUrls
    /\ applied' = "_calculate_url_priority"
    /\ output' = _calculate_url_priority(input)
    /\ UNCHANGED <<crawl, input, service>>

\* What becomes of the href of an anchor of a fetched page: whether it is
\* among the links of the page and the worker puts an entry for it.
CallOffer ==
    /\ applied = "none"
    /\ input \in TextUrls \cup {MailtoUrl}
    /\ applied' = "offer"
    /\ output' = (_is_valid_url(input) /\ LinkEntries({input}, visited_urls) # {})
    /\ UNCHANGED <<crawl, input, service>>

CallNormalize ==
    /\ applied = "none"
    /\ input \in TextUrls
    /\ applied' = "_normalize_url"
    /\ output' = normalize_url(input)
    /\ UNCHANGED <<crawl, input, service>>

CallDiscovery ==
    /\ applied = "none"
    /\ input \in StrategyChoices
    /\ applied' = "_discovery_phase"
    /\ output' = _discovery_phase(input)
    /\ UNCHANGED <<crawl, input, service>>

\* The number of workers _crawl_phase creates for a page budget.
CallWorkerCount ==
    /\ applied = "none"
    /\ input \in Budgets
    /\ applied' = "_crawl_phase"
    /\ output' = WorkerCount(input.max_pages)
    /\ UNCHANGED <<crawl, input, service>>

NextCall ==
    \/ CallWorkerCount
    \/ CallPriority
    \/ CallOffer
    \/ CallNormalize
    \/ CallDiscovery

SpecCall == InitCall /\ [][NextCall]_vars

(***************************************************************************)
(* The crawl API: the requests for a crawl of the domain and the           *)
(* background task of each job, over the two redis keys crawl:domain:<d>   *)
(* (the lock of the domain, a job id) and crawl:job:<id> (the job's        *)
(* status).  A step is one redis command with the code around it; a        *)
(* command may raise (the connection is lost), the next one may succeed    *)
(* again.  Job ids are 1, 2, ..; applied and output hold the response of   *)
(* the last request.                                                       *)
(***************************************************************************)
\* No crawler has been constructed and no function has been called.
CrawlIdle ==
    /\ site = "small"
    /\ max_pages = DefaultMaxPages
    /\ priority_paths = {}
    /\ phase = "queued"
    /\ status = "started"
    /\ run_result = "none"
    /\ to_visit = EmptyBag
    /\ visited_urls = {}
    /\ pages = <<>>
    /\ failed_urls = <<>>
    /\ pc = <<>>
    /\ cur = <<>>
    /\ fetch_calls = [u \in Urls |-> 0]
    /\ fetch_outcomes = [u \in Urls |-> {}]
    /\ fetch_pages = [u \in Urls |-> 0]

CallIdle ==
    /\ applied = "none"
    /\ input = NoUrl
    /\ output = NoUrl

InitApi == CrawlIdle /\ CallIdle /\ ServiceIdle

Jobs == 1 .. Len(job_pc)

CrawlResponse(j, st) == [job_id |-> j, status |-> st]

\* POST /api/crawl for the domain: no await between the GET of the lock and
\* the two SETEX.
start_crawl ==
    /\ lock # 0 \/ Len(job_pc) < MaxJobs
    /\ applied' = "start_crawl"
    /\ IF lock # 0
       THEN /\ output' = CrawlResponse(lock, "already_crawling")
            /\ UNCHANGED <<lock, job_status, job_pc>>
       ELSE /\ job_status' = Append(job_status, "started")
            /\ job_pc' = Append(job_pc, "queued")
            /\ lock' = Len(job_pc) + 1
            /\ output' = CrawlResponse(Len(job_pc) + 1, "started")
    /\ UNCHANGED <<crawl, input, cancel_requested, progress, history, answered>>

\* The lock was written with SETEX and a TTL of one hour: redis removes it
\* when the hour is over, whatever the job does then.
LockExpires ==
    /\ lock # 0
    /\ lock' = 0
    /\ UNCHANGED <<crawl, call, cancel_requested, job_status, job_pc, progress,
                   history, answered>>

\* update_job_status(job_id, st, ..) of job j, with the position of the task
\* after it (next) and after an exception of the command (raised).
UpdateJob(j, st, next, raised) ==
    \E ok \in BOOLEAN :
        /\ job_status' = IF ok THEN [job_status EXCEPT ![j] = st] ELSE job_status
        /\ job_pc' = [job_pc EXCEPT ![j] = IF ok THEN next ELSE raised]

\* redis_client.delete of the lock of the domain, whichever job wrote it.
DeleteLock(j, next, raised) ==
    \E ok \in BOOLEAN :
        /\ lock' = IF ok THEN 0 ELSE lock
        /\ job_pc' = [job_pc EXCEPT ![j] = IF ok THEN next ELSE raised]

\* crawl_and_process of job j, up to the start of the crawl.
JobCrawling(j) ==
    /\ j \in Jobs
    /\ job_pc[j] = "queued"
    /\ UpdateJob(j, "crawling", "crawling", "except")
    /\ UNCHANGED <<crawl, call, cancel_requested, lock, progress, history, answered>>

\* crawler.start() has returned its pages or has raised.
JobProcessing(j) ==
    /\ j \in Jobs
    /\ job_pc[j] = "crawling"
    /\ \/ UpdateJob(j, "processing", "processing", "except")
       \/ job_pc' = [job_pc EXCEPT ![j] = "except"] /\ UNCHANGED job_status
    /\ UNCHANGED <<crawl, call, cancel_requested, lock, progress, history, answered>>

\* build_knowledge_base has returned the collection or has raised.
JobCompleted(j) ==
    /\ j \in Jobs
    /\ job_pc[j] = "processing"
    /\ \/ UpdateJob(j, "completed", "unlock", "except")
       \/ job_pc' = [job_pc EXCEPT ![j] = "except"] /\ UNCHANGED job_status
    /\ UNCHANGED <<crawl, call, cancel_requested, lock, progress, history, answered>>

\* "Clear domain lock", the last statement of the try block.
JobUnlock(j) ==
    /\ j \in Jobs
    /\ job_pc[j] = "unlock"
    /\ DeleteLock(j, "done", "except")
    /\ UNCHANGED <<crawl, call, cancel_requested, job_status, progress, history,
                   answered>>

\* The except branch: the status is set to "failed" ..
JobFailed(j) ==
    /\ j \in Jobs
    /\ job_pc[j] = "except"
    /\ UpdateJob(j, "failed", "except_unlock", "done")
    /\ UNCHANGED <<crawl, call, cancel_requested, lock, progress, history, answered>>

\* .. and the lock is deleted.
JobFailedUnlock(j) ==
    /\ j \in Jobs
    /\ job_pc[j] = "except_unlock"
    /\ DeleteLock(j, "done", "done")
    /\ UNCHANGED <<crawl, call, cancel_requested, job_status, progress, history,
                   answered>>

NextApi ==
    \/ start_crawl
    \/ LockExpires
    \/ \E j \in 1 .. MaxJobs :
          \/ JobCrawling(j)
          \/ JobProcessing(j)
          \/ JobCompleted(j)
          \/ JobUnlock(j)
          \/ JobFailed(j)
          \/ JobFailedUnlock(j)

SpecApi == InitApi /\ [][NextApi]_vars

(***************************************************************************)
(* The production pipeline of the test server: run_production_pipeline     *)
(* with a ProductionCrawler, which reports the progress of the job after   *)
(* every page it records.  The crawl is a sequence of recorded pages here  *)
(* (pages "p005", "p006", .. of the domain); status and progress are the   *)
(* fields of the job in crawl_jobs.                                        *)
(***************************************************************************)
InitPipeline ==
    /\ site = "small"
    /\ max_pages \in {SmallBudget, PipelineMaxPages}
    /\ priority_paths = {}
    /\ phase = "queued"
    /\ status = "started"
    /\ run_result = "none"
    /\ to_visit = EmptyBag
    /\ visited_urls = {}
    /\ pages = <<>>
    /\ failed_urls = <<>>
    /\ pc = <<>>
    /\ cur = <<>>
    /\ fetch_calls = [u \in Urls |-> 0]
    /\ fetch_outcomes = [u \in Urls |-> {}]
    /\ fetch_pages = [u \in Urls |-> 0]
    /\ CallIdle
    /\ ServiceIdle

\* ProductionCrawler._update_job_progress for a number of pages found.
_update_job_progress(found, mp) == Min(40, (found * 40) \div mp)

\* "Phase 1": the job is set to crawling, with progress 10.
PipelineCrawling ==
    /\ phase = "queued"
    /\ phase' = "crawling"
    /\ status' = "crawling"
    /\ progress' = 10
    /\ UNCHANGED <<site, max_pages, priority_paths, run_result, to_visit,
                   visited_urls, pages, failed_urls, pc, cur, fetch_calls,
                   fetch_outcomes, fetch_pages>>
    /\ UNCHANGED <<call, cancel_requested, lock, job_status, job_pc, history,
                   answered>>

\* A worker of the ProductionCrawler has fetched a page: it records it and
\* updates the progress of the job.
PageRecorded ==
    /\ phase = "crawling"
    /\ Cardinality(visited_urls) < max_pages
    /\ LET url == Url(Domain, 5 + Len(pages), FALSE)
       IN /\ pages' = AppendPage(pages, url)
          /\ visited_urls' = visited_urls \cup {normalize_url(url)}
    /\ progress' = _update_job_progress(Len(pages'), max_pages)
    /\ UNCHANGED <<site, max_pages, priority_paths, phase, status, run_result,
                   to_visit, failed_urls, pc, cur, fetch_calls, fetch_outcomes,
                   fetch_pages>>
    /\ UNCHANGED <<call, cancel_requested, lock, job_status, job_pc, history,
                   answered>>

\* crawler.start() has returned or raised; no page is an exception too.
PipelineProcessing ==
    /\ phase = "crawling"
    /\ \E raised \in BOOLEAN :
          IF raised \/ pages = <<>>
          THEN /\ phase' = "except"
               /\ UNCHANGED <<status, progress, run_result>>
          ELSE /\ phase' = "processing"
               /\ status' = "processing"
               /\ progress' = 40
               /\ run_result' = "pages"
    /\ UNCHANGED <<site, max_pages, priority_paths, to_visit, visited_urls,
                   pages, failed_urls, pc, cur, fetch_calls, fetch_outcomes,
                   fetch_pages>>
    /\ UNCHANGED <<call, cancel_requested, lock, job_status, job_pc, history,
                   answered>>

\* The simplified processing of the inner except branch.
Fallback ==
    /\ phase' = "finished"
    /\ status' = "completed"
    /\ progress' = 100

\* "Phase 2": the parser and the builder are constructed, or that raises.
PipelineBuilding ==
    /\ phase = "processing"
    /\ \/ /\ phase' = "building"
          /\ status' = "building_knowledge"
          /\ progress' = 60
       \/ Fallback
    /\ UNCHANGED <<site, max_pages, priority_paths, run_result, to_visit,
                   visited_urls, pages, failed_urls, pc, cur, fetch_calls,
                   fetch_outcomes, fetch_pages>>
    /\ UNCHANGED <<call, cancel_requested, lock, job_status, job_pc, history,
                   answered>>

\* "Phase 3": build_knowledge_base has returned, or it has raised.
PipelineCompleted ==
    /\ phase = "building"
    /\ \/ /\ phase' = "finished"
          /\ status' = "completed"
          /\ progress' = 100
       \/ Fallback
    /\ UNCHANGED <<site, max_pages, priority_paths, run_result, to_visit,
                   visited_urls, pages, failed_urls, pc, cur, fetch_calls,
                   fetch_outcomes, fetch_pages>>
    /\ UNCHANGED <<call, cancel_requested, lock, job_status, job_pc, history,
                   answered>>

\* The outer except branch.
PipelineFailed ==
    /\ phase = "except"
    /\ phase' = "finished"
    /\ status' = "failed"
    /\ progress' = 0
    /\ UNCHANGED <<site, max_pages, priority_paths, run_result, to_visit,
                   visited_urls, pages, failed_urls, pc, cur, fetch_calls,
                   fetch_outcomes, fetch_pages>>
    /\ UNCHANGED <<call, cancel_requested, lock, job_status, job_pc, history,
                   answered>>

NextPipeline ==
    \/ PipelineCrawling
    \/ PageRecorded
    \/ PipelineProcessing
    \/ PipelineBuilding
    \/ PipelineCompleted
    \/ PipelineFailed

SpecPipeline == InitPipeline /\ [][NextPipeline]_vars

(***************************************************************************)
(* The chat endpoint of the test server, for one session.  Requests are    *)
(* numbered 1, 2, ..; the exchange a request appends to the history of the *)
(* session is represented by the number of the request.                    *)
(***************************************************************************)
InitChat == CrawlIdle /\ CallIdle /\ ServiceIdle

\* The three ways a request is answered: by the reasoning engine, by direct
\* retrieval when the engine is missing or has raised, by the final fallback
\* when retrieval is missing or has raised too.
AnswerPaths == {"reasoning_engine", "direct_retrieval", "fallback"}

\* session["history"][-10:]
LastExchanges(h) ==
    IF Len(h) > HistoryLimit THEN SubSeq(h, Len(h) - HistoryLimit + 1, Len(h)) ELSE h

\* The requests the session has served.
Served == IF history = <<>> THEN 0 ELSE history[Len(history)]

\* POST /api/chat: the request is answered on one of the three paths, each
\* of which appends the exchange; the path of the reasoning engine then
\* keeps the last 10 exchanges.
chat ==
    /\ Served < MaxChats
    /\ \E path \in AnswerPaths :
          /\ answered' = path
          /\ history' = IF path = "reasoning_engine"
                        THEN LastExchanges(Append(history, Served + 1))
                        ELSE Append(history, Served + 1)
    /\ UNCHANGED <<crawl, call, cancel_requested, lock, job_status, job_pc, progress>>

NextChat == chat

SpecChat == InitChat /\ [][NextChat]_vars

(***************************************************************************)
(* Properties.                                                             *)
(***************************************************************************)
RunReturned == run_result # "none"

Failures == {"timeout", "error"}

\* The urls page.goto was called for.
Attempted == {u \in Urls : fetch_calls[u] > 0}

\* The reason the failed map is to hold for a failed outcome.
ReasonOf(outcome) == IF outcome = "timeout" THEN "timeout" ELSE "error"

NormalizedUrls == {normalize_url(u) : u \in Urls}

PagesOf(n) == {i \in 1 .. Len(pages) : normalize_url(pages[i]) = n}

FailedOf(n) == {u \in DOMAIN failed_urls : normalize_url(u) = n}

InQueue(u) == \E e \in BagToSet(to_visit) : e[2] = u

BudgetReached == Cardinality(visited_urls) >= max_pages

\* C1: when the run has returned, every normalized url occurs at most once in
\* the page list and the failed map taken together.
C1_NoDuplicateResult ==
    RunReturned =>
        \A n \in NormalizedUrls :
            Cardinality(PagesOf(n)) + Cardinality(FailedOf(n)) <= 1

\* C2: a url a worker has taken from the queue is already in visited, and no
\* two workers are fetching the same normalized url at the same time.
C2_ClaimAtomic ==
    /\ \A w \in Workers :
          pc[w] = "fetch" =>
              normalize_url(cur[w]) \in {normalize_url(v) : v \in visited_urls}
    /\ \A w, v \in Workers :
          (w # v /\ pc[w] = "fetch" /\ pc[v] = "fetch") =>
              normalize_url(cur[w]) # normalize_url(cur[v])

\* C3: when the run has returned, the page list holds at most
\* max_pages + worker count pages.
C3_BudgetRespected ==
    RunReturned => Len(pages) <= max_pages + WorkerCount(max_pages)

\* C4: under fair scheduling and a fetch that always answers, every worker
\* leaves its loop and the run returns.
C4_Terminates == <>(RunReturned /\ \A w \in Workers : pc[w] = "done")

C4_Witness ==
    /\ RunReturned
    /\ Cardinality(Workers) >= 2
    /\ Len(pages) >= 2
    /\ \E u \in Urls : fetch_outcomes[u] \cap Failures # {}

\* C5: when the run has returned, the queue is empty or the number of visited
\* urls has reached the page budget.
C5_TerminationPredicate ==
    RunReturned => (to_visit = EmptyBag \/ BudgetReached)

C5_Witness ==
    /\ RunReturned
    /\ Cardinality(Workers) >= 2
    /\ to_visit = EmptyBag
    /\ ~BudgetReached
    /\ Len(pages) >= 2

\* C6: once the fetch of some url has failed, every url that is in the queue
\* at that time gets fetched, unless the page budget is reached.
C6_FailureIsolation ==
    \A b \in SmallUrls :
        ((\E a \in Urls : fetch_outcomes[a] \cap Failures # {}) /\ InQueue(b))
          ~> (b \in Attempted \/ BudgetReached)

C6_Witness ==
    \E a, b \in SmallUrls :
        /\ a # b
        /\ fetch_outcomes[a] \cap Failures # {}
        /\ "page" \notin fetch_outcomes[a]
        /\ "page" \in fetch_outcomes[b]
        /\ fetch_outcomes[b] \cap Failures = {}
        /\ b \in visited_urls
        /\ ~BudgetReached
        /\ RunReturned

\* C7: when the run has returned, every url with a fetch that gave no page
\* has an entry in the failed map, "timeout" for a timeout and the error
\* otherwise.
C7_FailuresRecorded ==
    RunReturned =>
        \A u \in Urls :
            fetch_outcomes[u] \cap Failures # {} =>
                /\ u \in DOMAIN failed_urls
                /\ failed_urls[u] \in {ReasonOf(o) : o \in fetch_outcomes[u] \cap Failures}

\* C8: when every fetch of the run has timed out, the run ends with no page,
\* the failed map holds "timeout" for exactly the attempted urls, and the run
\* reports RunExhausted.
C8_AllTimeouts ==
    (RunReturned /\ \A u \in Urls : fetch_outcomes[u] \subseteq {"timeout"}) =>
        /\ Len(pages) = 0
        /\ DOMAIN failed_urls = Attempted
        /\ \A u \in Attempted : failed_urls[u] = "timeout"
        /\ run_result = "RunExhausted"

\* C9: the run hands RunExhausted to its caller exactly when it completed
\* with no page, and its pages otherwise.
C9_RunExhaustedIffNoPages ==
    RunReturned => (run_result = "RunExhausted" <=> Len(pages) = 0)

\* C10: no fetch is started for a url whose fetch has failed before.
C10_NoRetry ==
    [][\A u \in Urls :
          fetch_calls'[u] > fetch_calls[u] => fetch_outcomes'[u] \cap Failures = {}]_vars

RECURSIVE SumCalls(_)
SumCalls(S) ==
    IF S = {} THEN 0
    ELSE LET u == CHOOSE x \in S : TRUE IN fetch_calls[u] + SumCalls(S \ {u})

\* The number of page.goto calls made so far.
TotalCalls == SumCalls(Urls)

\* A fetch of u is started in this step.
FetchStarts(u) == fetch_calls'[u] > fetch_calls[u]

VisitedNormalized == {normalize_url(v) : v \in visited_urls}

\* C11: with one worker, a fetch that is started is of a url whose tier is
\* not below the tier of any page fetched before it.
C11_PriorityMonotone ==
    [][\A u \in Urls :
          (Cardinality(Workers) = 1 /\ FetchStarts(u)) =>
              \A i \in 1 .. Len(pages') :
                  _calculate_url_priority(pages'[i]) <= _calculate_url_priority(u)]_vars

\* C11, amended: with one worker, a fetch that is started is of a url whose
\* tier is the lowest priority among the entries then in the queue.
C11_LowestPending ==
    [][\A u \in Urls :
          (Cardinality(Workers) = 1 /\ FetchStarts(u)) =>
              \A e \in BagToSet(to_visit') : _calculate_url_priority(u) <= e[1]]_vars

C11_Witness ==
    /\ Cardinality(Workers) = 1
    /\ pc[1] = "fetch"
    /\ cur[1] = ContactUrl
    /\ \E i \in 1 .. Len(pages) : pages[i] = Post1Url
    /\ InQueue(Post2Url)

\* C12: the classifier gives "/", "/about", "/blog/post-1", "/blog/post-2"
\* the tiers 0, 1, 3, 3, and when these are what discovery returns, with a
\* budget of 2 pages and one worker, the first fetch is of "/" and the second
\* of "/about".
C12_BlogScenario ==
    /\ _calculate_url_priority(RootUrl) = 0
    /\ _calculate_url_priority(AboutUrl) = 1
    /\ _calculate_url_priority(Post1Url) = 3
    /\ _calculate_url_priority(Post2Url) = 3
    /\ (site = "blog" /\ max_pages = SmallBudget) =>
          \A w \in Workers :
              pc[w] = "fetch" =>
                  /\ TotalCalls = 1 => cur[w] = RootUrl
                  /\ TotalCalls = 2 => cur[w] = AboutUrl

\* C13: the queue never holds two entries with the same normalized url.
C13_OfferDeduplicates ==
    \A e, f \in BagToSet(to_visit) :
        normalize_url(e[2]) = normalize_url(f[2]) =>
            (e = f /\ CopiesIn(e, to_visit) = 1)

\* C14: no entry is put into the queue for a url whose normalized form is
\* that of a visited url.
C14_NoReinsertion ==
    [][\A e \in BagToSet(to_visit') :
          CopiesIn(e, to_visit') > CopiesIn(e, to_visit) =>
              normalize_url(e[2]) \notin VisitedNormalized]_vars

\* The tier the classifier is to give: 0 for the base url, otherwise by the
\* keywords of the path alone.
TierByPath(u) ==
    IF u = BaseUrl \/ u = RootUrl THEN 0
    ELSE IF NameKeywords(u.name) \cap {"product", "service", "pricing", "about", "contact"} # {}
         THEN 1
    ELSE IF NameKeywords(u.name) \cap {"doc", "help", "faq", "support"} # {} THEN 2
    ELSE IF NameKeywords(u.name) \cap {"blog", "news"} # {} THEN 3
    ELSE 5

\* C15: the classifier gives every url the tier of the first rule that
\* matches its path, whatever its host.
C15_ClassifyByPath ==
    applied = "_calculate_url_priority" => output = TierByPath(input)

\* The links a worker is to offer: on the target domain (with or without
\* "www."), no excluded extension, no pseudo-url; a fragment does not matter.
ToBeOffered(l) ==
    /\ l.scheme = "https"
    /\ StripWww(l.host) = StripWww(Domain)
    /\ ~PathEndsWithSkipped(l)

\* C16: a worker puts an entry for a link of a fetched page exactly when the
\* link is on the target domain, has no excluded extension and is no
\* pseudo-url; a fragment on the link does not keep it out.
C16_OfferFilter ==
    applied = "offer" => (output <=> ToBeOffered(input))

SameResource(u) ==
    {[u EXCEPT !.frag = f, !.slash = sl, !.slash2 = FALSE, !.caps = c] :
        f \in BOOLEAN, sl \in BOOLEAN,
        c \in {u.caps \ {"host"}, u.caps \cup {"host"}}}

\* The urls that differ from u in the query or in the letter case of the path.
OtherResource(u) ==
    {[u EXCEPT !.query = ~u.query, !.caps = @ \ {"query"}]}
      \cup (IF ~u.query THEN {}
            ELSE {[u EXCEPT !.caps = IF "query" \in @ THEN @ \ {"query"}
                                     ELSE @ \cup {"query"}]})
      \cup (IF u.name = 0 THEN {}
            ELSE {[u EXCEPT !.caps = IF "path" \in @ THEN @ \ {"path"}
                                     ELSE @ \cup {"path"}]})

\* C18: the normalized url has the scheme and the host in lower case, no
\* fragment, no trailing slash after a path, and the path and the query as
\* they were; urls that differ in fragment, trailing slash or host case only
\* have the same normalized url, and urls that differ in the query or in the
\* letter case of the path have different ones.
C18_NormalizeRules ==
    applied = "_normalize_url" =>
        /\ output.caps = input.caps \ {"scheme", "host"}
        /\ output.query = input.query
        /\ ~output.frag
        /\ output.slash = (input.name = 0)
        /\ \A v \in SameResource(input) : normalize_url(v) = output
        /\ \A v \in OtherResource(input) : normalize_url(v) # output

\* C19: the page list holds one record for each fetch that gave a page.
C19_NoLostPage ==
    \A u \in Urls :
        Cardinality({i \in 1 .. Len(pages) : pages[i] = u}) = fetch_pages[u]

C19_Witness ==
    /\ RunReturned
    /\ Cardinality(Workers) = 2
    /\ \E u \in Urls : fetch_pages[u] = 2
    /\ \E u \in Urls : fetch_outcomes[u] \cap Failures # {}

\* The urls of the strategies that did not fail.
Succeeded(s) ==
    UNION {r.urls : r \in {x \in {s.sitemap, s.robots, s.onpage} : x.failed = "no"}}

\* C20: whichever strategies fail, discovery returns, and it returns the urls
\* of the strategies that did not fail and of the pattern generation that
\* are on the target domain.
C20_BestEffort ==
    applied = "_discovery_phase" =>
        /\ ~output.raised
        /\ output.urls =
              {u \in Succeeded(input) \cup _generate_common_urls : _is_same_domain(u)}

\* C21: every url the discovery phase returns has the target domain as its
\* host, up to one leading "www."; a url of any other host, one whose host
\* only contains the domain or the text "www." included, is filtered out.
C21_SameHostOnly ==
    applied = "_discovery_phase" =>
        \A u \in output.urls : u.host \in {Domain, "www.d"}

\* C24: for a page budget the orchestrator starts exactly
\* clamp(3, 10, budget div 5) workers.
C24_WorkerCount ==
    applied = "_crawl_phase" => output = active_workers(input.max_pages)

\* C25: visited grows monotonically: no step of a run (seeding, a claim, an
\* offer, a recorded failure, a fetch that succeeds or fails) removes a url
\* from visited.
C25_VisitedMonotone == [][visited_urls \subseteq visited_urls']_vars

C25_Witness ==
    /\ RunReturned
    /\ Cardinality(visited_urls) >= 2
    /\ \E u \in Urls : fetch_pages[u] > 0 /\ fetch_outcomes[u] \cap Failures # {}

\* C26: the budget counts fetched pages only: a url is in visited if and
\* only if the result list holds a page for it (a worker records a page
\* without suspending in between), so a fetch that failed or timed out adds
\* nothing to visited.
C26_VisitedArePages ==
    /\ visited_urls = {pages[i] : i \in 1 .. Len(pages)}
    /\ \A u \in Urls : fetch_pages[u] = 0 => u \notin visited_urls

C26_Witness ==
    /\ visited_urls # {}
    /\ \E u \in Attempted \ visited_urls : fetch_outcomes[u] \cap Failures # {}

\* The urls the discovery of the blog site seeds the queue with; every other
\* entry is put later, by a worker.
BlogSeeds == {RootUrl, AboutUrl, Post1Url, Post2Url}

\* C23: with one worker, a fetch that is started is of an entry of the lowest
\* tier in the queue, and among the entries of its tier of the one that was
\* inserted first: an entry a worker put is not claimed while a seed of the
\* same tier that was never claimed is in the queue.
C23_FifoWithinTier ==
    [][\A u \in Urls :
          (site = "blog" /\ Cardinality(Workers) = 1 /\ FetchStarts(u)) =>
              /\ \A e \in BagToSet(to_visit') : _calculate_url_priority(u) <= e[1]
              /\ u \notin BlogSeeds =>
                    \A e \in BagToSet(to_visit') :
                        ~(/\ e[2] \in BlogSeeds
                          /\ fetch_calls[e[2]] = 0
                          /\ e[1] = _calculate_url_priority(u))]_vars

\* C22: once cancellation has been requested, no worker claims another url:
\* every worker leaves its loop at its next iteration, so that at most the
\* fetches in flight complete.
C22_CancelStopsClaims ==
    [][cancel_requested => \A u \in Urls : ~FetchStarts(u)]_vars

Terminal == {"completed", "failed"}

\* C27: the status of a job is absorbing once it is "completed" or "failed"
\* (in particular a completed job is never failed later), and the task of a
\* job ends with the job in one of the two.
C27_TerminalAbsorbing ==
    [][\A j \in Jobs :
          /\ job_status[j] \in Terminal => job_status'[j] = job_status[j]
          /\ job_pc'[j] = "done" => job_status'[j] \in Terminal]_vars

\* The jobs whose background task has not ended.
Running == {j \in Jobs : job_pc[j] # "done"}

\* C28: at most one crawl job of the domain is running: a request is accepted
\* (a job is created) only when no job is running, otherwise it is answered
\* with already_crawling, however requests, the steps of the jobs and the
\* expiry of the lock interleave.
C28_OneJobPerDomain ==
    [][/\ Cardinality(Running') <= 1
       /\ (Running # {} /\ output' # output) =>
             output'.status = "already_crawling"]_vars

\* C29: while the job has not failed, the progress it reports never
\* decreases.
C29_ProgressMonotone == [][status' # "failed" => progress' >= progress]_vars

\* C30: the history of a chat session never holds more than 10 exchanges,
\* whichever path answered the requests, and the exchanges it holds are the
\* most recent ones, in the order of the requests.
C30_HistoryBounded ==
    /\ Len(history) <= HistoryLimit
    /\ \A i \in 1 .. Len(history) : history[i] = Served - Len(history) + i

====
